---- MODULE Spec2Model ----
(***************************************************************************)
(* A model of mcp-vision (src/index.ts): the vision.analyze tool handler,  *)
(* the image reference -> Gemini part conversion (toPart,                  *)
(* processImageBuffer) and the provider dispatch (callGemini).             *)
(*                                                                         *)
(* Strings are sequences of one-character strings followed by an optional  *)
(* run of base64 characters (the payload of a data URI), kept as a count   *)
(* so that payloads around the 18 MiB ceiling can be represented.          *)
(*                                                                         *)
(* Spec follows one invocation from its arguments to its outcome.          *)
(* SpecClassify runs the classification of arbitrary reference strings,    *)
(* SpecModel the normalization of arbitrary model names, SpecLive adds     *)
(* the fairness of the handler and of its timers, and SpecTwo interleaves  *)
(* two invocations.                                                        *)
(***************************************************************************)
EXTENDS Integers, Sequences, FiniteSets, TLC

\* ------------------------------------------------------------------------
\* Bounds of the model (not program constants)
\* ------------------------------------------------------------------------
\* longest image array enumerated over every combination of references
MaxMixed == 2
\* number of pieces concatenated to build a reference string or a model name
MaxPieces == 3

\* ------------------------------------------------------------------------
\* Program constants
\* ------------------------------------------------------------------------
MAX_IMAGES == 10
MAX_IMAGE_SIZE_MB == 18
MAX_IMAGE_SIZE_BYTES == MAX_IMAGE_SIZE_MB * 1024 * 1024
REQUEST_TIMEOUT_MS == 60000
DEFAULT_MAX_LONG_EDGE == 2048
\* String.prototype.substring(0, 200) in the error messages
ERR_BODY_CHARS == 200

\* ------------------------------------------------------------------------
\* Strings
\* ------------------------------------------------------------------------
\* A run of base64 characters: n characters, the last pad of them "=",
\* encoding the bytes of the buffer (src, scaled, len).  n = 0: no run.
NoTail == [src |-> "", scaled |-> 0, len |-> 0, n |-> 0, pad |-> 0]

Str(chars) == [pre |-> chars, tail |-> NoTail]

StrLen(s) == Len(s.pre) + s.tail.n

UpperChars == <<"A","B","C","D","E","F","G","H","I","J","K","L","M",
                "N","O","P","Q","R","S","T","U","V","W","X","Y","Z">>
LowerChars == <<"a","b","c","d","e","f","g","h","i","j","k","l","m",
                "n","o","p","q","r","s","t","u","v","w","x","y","z">>

IsUpper(c) == \E i \in 1..26 : UpperChars[i] = c
IsLetter(c) == \E i \in 1..26 : UpperChars[i] = c \/ LowerChars[i] = c

toLowerChar(c) ==
    IF IsUpper(c) THEN LowerChars[CHOOSE i \in 1..26 : UpperChars[i] = c]
    ELSE c

toLowerSeq(cs) == [i \in 1..Len(cs) |-> toLowerChar(cs[i])]

\* the first k characters of the explicit part (all of it when shorter)
Prefix(cs, k) == SubSeq(cs, 1, IF Len(cs) < k THEN Len(cs) ELSE k)

StartsWith(cs, p) == Prefix(cs, Len(p)) = p

StartsWithI(cs, p) == toLowerSeq(Prefix(cs, Len(p))) = p

\* line terminators, which "." of a regular expression does not match
IsLineTerminator(c) == c \in {"\n", "\r"}

WhiteSpace == {" ", "\t", "\n", "\r"}

\* ------------------------------------------------------------------------
\* Helper functions for image detection (index.ts 38-52)
\* ------------------------------------------------------------------------
isURL(s) ==
    \/ StartsWithI(s.pre, <<"h","t","t","p",":","/","/">>)
    \/ StartsWithI(s.pre, <<"h","t","t","p","s",":","/","/">>)

isFileURL(s) == StartsWithI(s.pre, <<"f","i","l","e",":","/","/">>)

\* position of the first ";" at or after position from (0: none); the
\* base64 run holds no ";"
FirstSemi(cs, from) ==
    IF \E j \in from..Len(cs) : cs[j] = ";"
    THEN CHOOSE j \in from..Len(cs) :
            /\ cs[j] = ";"
            /\ \A k \in from..(j - 1) : cs[k] # ";"
    ELSE 0

Base64Marker == <<";","b","a","s","e","6","4",",">>

\* /^data:image\/[^;]+;base64,/
isDataURI(s) ==
    LET cs == s.pre
        j  == FirstSemi(cs, 12)
    IN  /\ StartsWith(cs, <<"d","a","t","a",":","i","m","a","g","e","/">>)
        /\ j > 12
        /\ SubSeq(cs, j, IF Len(cs) < j + 7 THEN Len(cs) ELSE j + 7)
              = Base64Marker

\* a variant that looks for "/" anywhere in the string
isAbsPathChars_anySlash(cs) ==
    \/ \E i \in 1..Len(cs) : cs[i] = "/"
    \/ /\ Len(cs) >= 3
       /\ IsLetter(cs[1])
       /\ cs[2] = ":"
       /\ cs[3] = "\\"

isAbsPathChars(cs) ==
    \/ StartsWith(cs, <<"/">>)
    \/ /\ Len(cs) >= 3
       /\ IsLetter(cs[1])
       /\ cs[2] = ":"
       /\ cs[3] = "\\"

isAbsPath(s) == isAbsPathChars(s.pre)

\* /^data:([^;]+);base64,(.+)$/.exec(img): the two groups, or no match
NoMatch == [matched |-> FALSE, mime |-> <<>>, data |-> NoTail, rest |-> <<>>]

DataURIMatch(s) ==
    LET cs == s.pre
        j  == FirstSemi(cs, 6)
        rest == SubSeq(cs, j + 8, Len(cs))
    IN  IF /\ StartsWith(cs, <<"d","a","t","a",":">>)
           /\ j > 6
           /\ SubSeq(cs, j, IF Len(cs) < j + 7 THEN Len(cs) ELSE j + 7)
                 = Base64Marker
           /\ Len(rest) + s.tail.n >= 1
           /\ \A k \in 1..Len(rest) : ~IsLineTerminator(rest[k])
        THEN [matched |-> TRUE, mime |-> SubSeq(cs, 6, j - 1),
              data |-> s.tail, rest |-> rest]
        ELSE NoMatch

\* ------------------------------------------------------------------------
\* Buffers and the image codec (sharp)
\* ------------------------------------------------------------------------
\* A buffer is len bytes holding the file named src; scaled > 0: the bytes
\* are the output of a resize of src to a long edge of scaled pixels.
Buf(src, len) == [src |-> src, scaled |-> 0, len |-> len]

SmallLen == 1024

\* What the bytes of each source file decode to.  ok = FALSE: sharp rejects
\* the bytes; width 0: the codec reports no dimensions.
Decoded(fmt, w, h) == [ok |-> TRUE, format |-> fmt, width |-> w, height |-> h]

Undecodable == [ok |-> FALSE, format |-> "", width |-> 0, height |-> 0]

SourceImage(src) ==
    CASE src = "png"    -> Decoded("png", 800, 600)
      [] src = "jpeg4k" -> Decoded("jpeg", 4000, 3000)
      [] src = "edge"   -> Decoded("webp", DEFAULT_MAX_LONG_EDGE, 1024)
      [] src = "over"   -> Decoded("gif", 10, DEFAULT_MAX_LONG_EDGE + 1)
      [] src = "tiff16" -> Decoded("tiff", 8000, 8000)
      [] src = "svg"    -> Decoded("svg", 100, 100)
      [] src = "JPG"    -> Decoded("JPG", 640, 480)
      [] src = "nodim"  -> Decoded("png", 0, 0)
      [] OTHER          -> Undecodable

\* Math.round(a / b) for positive integers
RoundDiv(a, b) == (2 * a + b) \div (2 * b)

Max(a, b) == IF a > b THEN a ELSE b

\* sharp(buffer).metadata() (index.ts 161): the decoded format and size
sharpMetadata(buffer) ==
    LET img == SourceImage(buffer.src)
        long == Max(img.width, img.height)
    IN  IF ~img.ok \/ buffer.scaled = 0 \/ long = 0 THEN img
        ELSE [img EXCEPT !.width = Max(1, RoundDiv(img.width * buffer.scaled, long)),
                         !.height = Max(1, RoundDiv(img.height * buffer.scaled, long))]

\* length of the re-encoded output of a resize: small, except for sources
\* whose pixels stay above the ceiling at the threshold resolution
ResizedLen(buffer) ==
    IF buffer.src = "tiff16" THEN MAX_IMAGE_SIZE_BYTES + 1
    ELSE IF buffer.len < SmallLen THEN buffer.len ELSE SmallLen

\* sharp(buffer).resize(edge, edge, {fit: "inside",
\*                                   withoutEnlargement: true}).toBuffer()
sharpResize(buffer, edge) ==
    [src |-> buffer.src, scaled |-> edge, len |-> ResizedLen(buffer)]

\* String.prototype.toLowerCase on the format names of the model
formatLower(f) == IF f = "JPG" THEN "jpg" ELSE IF f = "JPEG" THEN "jpeg" ELSE f

\* MIME types are character sequences, as the strings of the program are
ImageSlash == <<"i","m","a","g","e","/">>

\* index.ts 55-68
formatToMime(format) ==
    LET f == formatLower(format)
    IN  CASE f = "jpeg" -> ImageSlash \o <<"j","p","e","g">>
      [] f = "jpg" -> ImageSlash \o <<"j","p","e","g">>
      [] f = "png" -> ImageSlash \o <<"p","n","g">>
      [] f = "gif" -> ImageSlash \o <<"g","i","f">>
      [] f = "webp" -> ImageSlash \o <<"w","e","b","p">>
      [] f = "tiff" -> ImageSlash \o <<"t","i","f","f">>
      [] f = "avif" -> ImageSlash \o <<"a","v","i","f">>
      [] f = "heif" -> ImageSlash \o <<"h","e","i","f">>
      [] f = "heic" -> ImageSlash \o <<"h","e","i","c">>
          [] OTHER -> ImageSlash \o <<"p","n","g">>

\* buffer.toString("base64"): 4 characters per 3 bytes, padded with "="
toBase64(buffer) ==
    [pre  |-> <<>>,
     tail |-> [src |-> buffer.src, scaled |-> buffer.scaled,
               len |-> buffer.len,
               n |-> 4 * ((buffer.len + 2) \div 3),
               pad |-> (3 - (buffer.len % 3)) % 3]]

Base64Alphabet ==
    {UpperChars[i] : i \in 1..26} \cup {LowerChars[i] : i \in 1..26}
      \cup {"0","1","2","3","4","5","6","7","8","9","+","/"}

\* number of base64 digits in an explicit character sequence
RECURSIVE CountDigits(_)
CountDigits(cs) ==
    IF cs = <<>> THEN 0
    ELSE (IF Head(cs) \in Base64Alphabet THEN 1 ELSE 0) + CountDigits(Tail(cs))

\* Buffer.from(data, "base64").length: 6 bits per digit, whole bytes only
DecodedLen(data) ==
    ((CountDigits(data.pre) + data.tail.n - data.tail.pad) * 3) \div 4

\* Buffer.from(data, "base64"): the bytes a provider decodes from a part
fromBase64(data) ==
    IF data.pre = <<>> /\ data.tail.n > 0
    THEN [src |-> data.tail.src, scaled |-> data.tail.scaled,
          len |-> DecodedLen(data)]
    ELSE [src |-> "raw", scaled |-> 0, len |-> DecodedLen(data)]

\* ------------------------------------------------------------------------
\* Parts and outcomes
\* ------------------------------------------------------------------------
InlinePart(mimeType, data) ==
    [kind |-> "inlineData", mimeType |-> mimeType, data |-> data,
     text |-> <<>>]

EmptyData == [pre |-> <<>>, tail |-> NoTail]

TextPart(text) ==
    [kind |-> "text", mimeType |-> <<>>, data |-> EmptyData, text |-> text]

NoPart == [kind |-> "none", mimeType |-> <<>>, data |-> EmptyData, text |-> <<>>]

Ok(part) == [ok |-> TRUE, part |-> part, err |-> "", resized |-> FALSE]

Fail(err) == [ok |-> FALSE, part |-> NoPart, err |-> err, resized |-> FALSE]

\* ------------------------------------------------------------------------
\* processImageBuffer (index.ts 157-199)
\* ------------------------------------------------------------------------
\* a variant that also resizes an image whose long edge is the threshold
NeedsResize_atThreshold(metadata, maxLongEdge) ==
    /\ maxLongEdge # 0
    /\ maxLongEdge > 0
    /\ Max(metadata.width, metadata.height) >= maxLongEdge

NeedsResize(metadata, maxLongEdge) ==
    /\ maxLongEdge # 0
    /\ maxLongEdge > 0
    /\ Max(metadata.width, metadata.height) > maxLongEdge

processImageBuffer(buffer, maxLongEdge) ==
    LET metadata == sharpMetadata(buffer)
        mimeType == formatToMime(metadata.format)
        processedBuffer ==
            IF NeedsResize(metadata, maxLongEdge)
            THEN sharpResize(buffer, maxLongEdge)
            ELSE buffer
    IN  IF ~metadata.ok THEN Fail("Not a valid image file")
        ELSE IF metadata.format = "" \/ metadata.width = 0
                  \/ metadata.height = 0
        THEN Fail("Invalid or corrupted image")
        ELSE IF processedBuffer.len > MAX_IMAGE_SIZE_BYTES
        THEN Fail("Image too large after processing")
        ELSE [ok |-> TRUE,
              part |-> InlinePart(mimeType, toBase64(processedBuffer)),
              err |-> "",
              resized |-> NeedsResize(metadata, maxLongEdge)]

\* ------------------------------------------------------------------------
\* Image references used as inputs
\* ------------------------------------------------------------------------
U_ok == Str(
    <<"h","t","t","p","s",":","/","/","x","/","y",".","p","n","g">>)

U_404 == Str(
    <<"h","t","t","p","s",":","/","/","x","/","g","o","n","e">>)

U_html == Str(
    <<"h","t","t","p","s",":","/","/","x","/","p","a","g","e">>)

U_fake == Str(
    <<"h","t","t","p","s",":","/","/","x","/","f","a","k","e",".","p","n",
      "g">>)

U_big == Str(
    <<"h","t","t","p",":","/","/","x","/","b","i","g",".","j","p","g">>)

U_over == Str(
    <<"h","t","t","p","s",":","/","/","x","/","o","v","e","r">>)

U_lie == Str(
    <<"h","t","t","p","s",":","/","/","x","/","l","i","e",".","p","n",
      "g">>)

U_noct == Str(
    <<"h","t","t","p","s",":","/","/","x","/","n","o","c","t">>)

U_upper == Str(
    <<"H","T","T","P","S",":","/","/","x","/","u","p">>)

P_jpeg == Str(
    <<"/","t","m","p","/","a",".","j","p","g">>)

P_edge == Str(
    <<"/","t","m","p","/","e","d","g","e">>)

P_over == Str(
    <<"/","t","m","p","/","o","v","e","r">>)

P_notes == Str(
    <<"/","t","m","p","/","n","o","t","e","s",".","p","n","g">>)

P_missing == Str(
    <<"/","t","m","p","/","m","i","s","s","i","n","g">>)

P_tiff == Str(
    <<"/","t","m","p","/","t",".","t","i","f","f">>)

P_huge == Str(
    <<"/","t","m","p","/","h","u","g","e">>)

P_max == Str(
    <<"/","t","m","p","/","m","a","x">>)

P_svg == Str(
    <<"/","t","m","p","/","i",".","s","v","g">>)

P_JPG == Str(
    <<"/","t","m","p","/","b",".","J","P","G">>)

P_nodim == Str(
    <<"/","t","m","p","/","n","o","d","i","m">>)

P_win == Str(
    <<"C",":","\\","a",".","p","n","g">>)

F_jpeg == Str(
    <<"f","i","l","e",":","/","/","/","t","m","p","/","a",".","j","p",
      "g">>)

F_host == Str(
    <<"f","i","l","e",":","/","/","h","/","t","m","p","/","a",".","j","p",
      "g">>)

F_upper == Str(
    <<"F","I","L","E",":","/","/","/","t","m","p","/","e","d","g","e">>)

F_win == Str(
    <<"f","i","l","e",":","/","/","/","C",":","/","a",".","p","n","g">>)

X_ftp == Str(
    <<"f","t","p",":","/","/","x">>)

X_rel == Str(
    <<"t","m","p","/","a",".","j","p","g">>)

X_texturi == Str(
    <<"d","a","t","a",":","t","e","x","t","/","p","l","a","i","n",";","b",
      "a","s","e","6","4",",","A","A","A","A">>)

X_DATA == Str(
    <<"D","A","T","A",":","i","m","a","g","e","/","p","n","g",";","b","a",
      "s","e","6","4",",","A","A","A","A">>)

D_quad == Str(
    <<"d","a","t","a",":","i","m","a","g","e","/","p","n","g",";","b","a",
      "s","e","6","4",",","A","A","A","A">>)

D_empty == Str(
    <<"d","a","t","a",":","i","m","a","g","e","/","p","n","g",";","b","a",
      "s","e","6","4",",">>)

D_nl == Str(
    <<"d","a","t","a",":","i","m","a","g","e","/","p","n","g",";","b","a",
      "s","e","6","4",",","A","A","\n","A">>)

DataPng == <<"d","a","t","a",":","i","m","a","g","e","/","p","n","g",";","b","a","s","e","6","4",",">>

DataJpeg == <<"d","a","t","a",":","i","m","a","g","e","/","j","p","e","g",";","b","a","s","e","6","4",",">>

\* a data URI whose payload is the base64 text of a buffer
DataURIOf(head, buffer) == [pre |-> head, tail |-> toBase64(buffer).tail]

D_png == DataURIOf(DataPng, Buf("png", SmallLen))

D_txt == DataURIOf(DataPng, Buf("txt", SmallLen))

D_lie == DataURIOf(DataJpeg, Buf("png", SmallLen + 1))

D_max == DataURIOf(DataPng, Buf("png", MAX_IMAGE_SIZE_BYTES))

D_over == DataURIOf(DataPng, Buf("png", MAX_IMAGE_SIZE_BYTES + 1))

D_4k == DataURIOf(DataJpeg, Buf("jpeg4k", SmallLen + 2))

RemoteRefs == {U_ok, U_404, U_html, U_fake, U_big, U_over, U_lie, U_noct, U_upper}

PathRefs == {P_jpeg, P_edge, P_over, P_notes, P_missing, P_tiff,
             P_huge, P_max, P_svg, P_JPG, P_nodim, P_win}

FileRefs == {F_jpeg, F_host, F_upper, F_win}

DataRefs == {D_quad, D_empty, D_nl, D_png, D_txt, D_lie, D_max, D_over, D_4k}

OtherRefs == {X_ftp, X_rel, X_texturi, X_DATA, Str(<<>>)}

Refs == RemoteRefs \cup PathRefs \cup FileRefs \cup DataRefs \cup OtherRefs

\* ------------------------------------------------------------------------
\* fileURLToPath (node:url), for file URLs without percent escapes
\* ------------------------------------------------------------------------
\* position of the first "/" at or after position from (Len + 1: none)
FirstSlash(cs, from) ==
    IF \E j \in from..Len(cs) : cs[j] = "/"
    THEN CHOOSE j \in from..Len(cs) :
            /\ cs[j] = "/"
            /\ \A k \in from..(j - 1) : cs[k] # "/"
    ELSE Len(cs) + 1

BackSlashes(cs) == [i \in 1..Len(cs) |-> IF cs[i] = "/" THEN "\\" ELSE cs[i]]

Path(cs) == [ok |-> TRUE, path |-> cs]

PathError == [ok |-> FALSE, path |-> <<>>]

fileURLToPath(img, platform) ==
    LET cs == img.pre
        h  == FirstSlash(cs, 8)
        hostname == SubSeq(cs, 8, h - 1)
        pathname == IF h > Len(cs) THEN <<"/">> ELSE SubSeq(cs, h, Len(cs))
    IN  IF platform = "posix"
        THEN IF hostname # <<>> THEN PathError ELSE Path(pathname)
        ELSE IF hostname # <<>>
             THEN Path(<<"\\","\\">> \o hostname \o BackSlashes(pathname))
             ELSE IF Len(pathname) >= 3 /\ IsLetter(pathname[2])
                     /\ pathname[3] = ":"
             THEN Path(BackSlashes(Tail(pathname)))
             ELSE PathError

\* ------------------------------------------------------------------------
\* The environment: what the network and the file system hold
\* ------------------------------------------------------------------------
Response(statusCode, contentType, body) ==
    [statusCode |-> statusCode, contentType |-> contentType, body |-> body]

TextHtml == <<"t","e","x","t","/","h","t","m","l">>

\* undici request(img): status, content-type header and body of the GET
webGet(img) ==
    CASE img = U_ok    -> Response(200, formatToMime("png"), Buf("png", SmallLen))
      [] img = U_404   -> Response(404, TextHtml, Buf("txt", 9))
      [] img = U_html  -> Response(200, TextHtml, Buf("txt", SmallLen))
      [] img = U_fake  -> Response(200, formatToMime("png"), Buf("txt", SmallLen))
      [] img = U_big   -> Response(200, formatToMime("jpeg"),
                                   Buf("jpeg4k", 5 * SmallLen))
      [] img = U_over  -> Response(200, formatToMime("png"),
                                   Buf("png", MAX_IMAGE_SIZE_BYTES + 1))
      [] img = U_lie   -> Response(200, formatToMime("png"),
                                   Buf("JPG", 2 * SmallLen))
      [] img = U_noct  -> Response(200, <<>>, Buf("png", SmallLen))
      [] img = U_upper -> Response(200, formatToMime("gif"),
                                   Buf("edge", 3 * SmallLen))
      [] OTHER         -> Response(404, <<>>, Buf("txt", 0))

File(buffer) == [ok |-> TRUE, buffer |-> buffer]

ENOENT == [ok |-> FALSE, buffer |-> Buf("", 0)]

\* readFile(filepath): the bytes of the file, or an I/O error
readFile(filepath, platform) ==
    CASE filepath = P_jpeg.pre  -> File(Buf("jpeg4k", 5 * SmallLen))
      [] filepath = P_edge.pre  -> File(Buf("edge", 3 * SmallLen))
      [] filepath = P_over.pre  -> File(Buf("over", 4 * SmallLen))
      [] filepath = P_notes.pre -> File(Buf("txt", SmallLen))
      [] filepath = P_tiff.pre  -> File(Buf("tiff16", 20 * SmallLen))
      [] filepath = P_huge.pre  -> File(Buf("png", MAX_IMAGE_SIZE_BYTES + 1))
      [] filepath = P_max.pre   -> File(Buf("png", MAX_IMAGE_SIZE_BYTES))
      [] filepath = P_svg.pre   -> File(Buf("svg", SmallLen))
      [] filepath = P_JPG.pre   -> File(Buf("JPG", 2 * SmallLen))
      [] filepath = P_nodim.pre -> File(Buf("nodim", SmallLen))
      [] filepath = P_win.pre /\ platform = "win32"
                                -> File(Buf("png", SmallLen + 3))
      [] OTHER                  -> ENOENT

\* ------------------------------------------------------------------------
\* toPart (index.ts 81-154)
\* ------------------------------------------------------------------------
\* a variant of the data URI branch without the size estimate
toPartData_noSizeCheck(img) ==
    LET match == DataURIMatch(img)
    IN  IF ~match.matched THEN Fail("Invalid data URI format")
        ELSE IF ~StartsWith(match.mime, ImageSlash)
        THEN Fail("Data URI must be an image")
        ELSE Ok(InlinePart(match.mime,
                           [pre |-> match.rest, tail |-> match.data]))

\* the data URI branch (index.ts 83-106)
toPartData(img) ==
    LET match == DataURIMatch(img)
        length == Len(match.rest) + match.data.n
    IN  IF ~match.matched THEN Fail("Invalid data URI format")
        ELSE IF ~StartsWith(match.mime, ImageSlash)
        THEN Fail("Data URI must be an image")
        ELSE IF length * 3 > MAX_IMAGE_SIZE_BYTES * 4
        THEN Fail("Data URI too large")
        ELSE Ok(InlinePart(match.mime,
                           [pre |-> match.rest, tail |-> match.data]))

\* the remote branch after the response has arrived (index.ts 118-136)
toPartFetched(response, maxLongEdge) ==
    IF response.statusCode # 200 THEN Fail("Failed to fetch image")
    ELSE IF ~StartsWith(response.contentType, ImageSlash)
    THEN Fail("URL must return an image")
    ELSE IF response.body.len > MAX_IMAGE_SIZE_BYTES
    THEN Fail("Image too large")
    ELSE processImageBuffer(response.body, maxLongEdge)

\* the path handed to readFile (index.ts 143-148), when there is one
toPartPath(img, platform) ==
    LET filepath == IF isFileURL(img) THEN fileURLToPath(img, platform)
                    ELSE Path(img.pre)
    IN  IF ~filepath.ok THEN [step |-> "throw", path |-> <<>>,
                              err |-> "Invalid file URL"]
        ELSE IF isAbsPathChars(filepath.path)
        THEN [step |-> "read", path |-> filepath.path, err |-> ""]
        ELSE [step |-> "throw", path |-> <<>>,
              err |-> "Unsupported image format"]

\* ------------------------------------------------------------------------
\* Inputs of an invocation
\* ------------------------------------------------------------------------
\* references that convert to a part on a posix host
ValidCycle ==
    <<D_png, U_ok, P_edge, F_jpeg, D_lie, U_big, P_max, P_svg, U_lie,
      P_JPG, D_4k>>

\* ValidCycle repeated up to length n
CycleArray(n) == [i \in 1..n |-> ValidCycle[((i - 1) % Len(ValidCycle)) + 1]]

CoreRefs == {D_png, U_ok, P_jpeg, X_ftp, U_404}

BadRefs == {X_ftp, U_404, P_missing, D_over}

ImageArrays ==
    {CycleArray(n) : n \in 0..(MAX_IMAGES + 1)}
      \cup {<<r>> : r \in Refs}
      \cup UNION {[1..n -> CoreRefs] : n \in 0..MaxMixed}
      \cup {[CycleArray(3) EXCEPT ![k] = bad] : k \in 1..3, bad \in BadRefs}

\* request.params.arguments.images: absent, one string, or an array
ImagesArgs ==
    {[tag |-> "undefined", s |-> Str(<<>>), a |-> <<>>]}
      \cup {[tag |-> "string", s |-> r, a |-> <<>>] :
              r \in {U_ok, D_png, X_rel, Str(<<>>)}}
      \cup {[tag |-> "array", s |-> Str(<<>>), a |-> arr] : arr \in ImageArrays}

\* the inputs tried under every provider configuration; the others run
\* with the default provider and its key
ProbeArgs ==
    {[tag |-> "array", s |-> Str(<<>>), a |-> arr] :
        arr \in {<<D_png>>, <<U_ok, P_jpeg>>, CycleArray(3)}}

Describe == <<"d","e","s","c","r","i","b","e">>

Instructions == {<<>>, <<" ", "\n">>, Describe, <<" ", "h", "i", " ">>}

RECURSIVE TrimStart(_)
TrimStart(cs) ==
    IF cs # <<>> /\ Head(cs) \in WhiteSpace THEN TrimStart(Tail(cs)) ELSE cs

RECURSIVE TrimEnd(_)
TrimEnd(cs) ==
    IF cs # <<>> /\ cs[Len(cs)] \in WhiteSpace
    THEN TrimEnd(SubSeq(cs, 1, Len(cs) - 1))
    ELSE cs

\* String.prototype.trim
trim(cs) == TrimEnd(TrimStart(cs))

\* ------------------------------------------------------------------------
\* State
\* ------------------------------------------------------------------------
VARIABLES
    platform,       \* process.platform: "posix" or "win32"
    MAX_LONG_EDGE,  \* VISION_MAX_LONG_EDGE, parsed (index.ts 18-20)
    PROVIDER,       \* GEMINI_PROVIDER || "ais"
    API_KEY,        \* GEMINI_API_KEY ("": unset)
    project,        \* GOOGLE_CLOUD_PROJECT ("": unset)
    MODEL,          \* GEMINI_MODEL || "models/gemini-flash-lite-latest"
    toolName,       \* request.params.name
    images,         \* request.params.arguments.images
    instruction,    \* request.params.arguments.instruction
    pc,             \* where the handler stands
    imageArray,     \* the normalized array of references
    idx,            \* index of the reference the loop is at
    parts,          \* the parts built so far
    handled,        \* the branch of toPart each reference went through
    io,             \* file and network operations issued, in order
    filepath,       \* the path toPart hands to readFile
    tried,          \* the credential steps getVertexAccessToken went through
    timers,         \* the armed timers, each named by the operation it bounds
    sent,           \* request bodies POSTed to the provider
    response,       \* the provider response the handler consumed
    outcome,        \* what the invocation returned or threw
    self,           \* the invocation whose handler is running
    other           \* the locals of the handler call that is suspended

vars == <<platform, MAX_LONG_EDGE, PROVIDER, API_KEY, project, MODEL,
          toolName, images, instruction, pc, imageArray, idx, parts,
          handled, io, filepath, tried, timers, sent, response, outcome,
          self, other>>

config == <<platform, MAX_LONG_EDGE, PROVIDER, API_KEY, project, MODEL,
            toolName, images, instruction>>

\* which handler call runs and which one waits
context == <<self, other>>

\* the timer that bounds an operation of the running handler call: the GET
\* of reference op, or the POST (op = 0)
Timer(op) == [by |-> self, op |-> op]

DefaultModel ==
    <<"m","o","d","e","l","s","/","g","e","m","i","n","i","-","f","l","a","s","h","-","l","i","t","e","-","l","a","t","e","s","t">>

Models == {DefaultModel, <<"g","e","m","i","n","i","-","p","r","o">>}

\* no second handler call
NoCall == [self |-> 0]

NoOutcome ==
    [status |-> "none", text |-> <<>>, err |-> "", code |-> 0,
     detail |-> <<>>]

Thrown(err) ==
    [status |-> "error", text |-> <<>>, err |-> err, code |-> 0,
     detail |-> <<>>]

Returned(text) ==
    [status |-> "result", text |-> text, err |-> "", code |-> 0,
     detail |-> <<>>]

IO(op, target) == [op |-> op, target |-> target]

NoResponse == [statusCode |-> 0, body |-> <<>>]

Init ==
    /\ platform \in {"posix", "win32"}
    /\ MAX_LONG_EDGE \in {DEFAULT_MAX_LONG_EDGE, 0, -1}
    /\ PROVIDER \in {"ais", "vertex", "openai"}
    /\ API_KEY \in {"", "key"}
    /\ project \in {"", "proj"}
    /\ toolName \in {"vision.analyze", "other"}
    /\ images \in ImagesArgs
    /\ instruction \in Instructions
    /\ toolName = "other" =>
          /\ images.tag = "undefined"
          /\ instruction = <<>>
    /\ MODEL \in Models
    /\ images \notin ProbeArgs =>
          /\ PROVIDER = "ais"
          /\ API_KEY = "key"
          /\ project = ""
          /\ MODEL = DefaultModel
    /\ pc = "start"
    /\ imageArray = <<>>
    /\ idx = 1
    /\ parts = <<>>
    /\ handled = <<>>
    /\ io = <<>>
    /\ filepath = <<>>
    /\ tried = <<>>
    /\ timers = {}
    /\ self = 1
    /\ other = NoCall
    /\ sent = <<>>
    /\ response = NoResponse
    /\ outcome = NoOutcome

\* ------------------------------------------------------------------------
\* The CallToolRequestSchema handler (index.ts 439-488)
\* ------------------------------------------------------------------------
\* a variant of the argument validation without the MAX_IMAGES check
ValidationError_noMaximum(name, imgs, instr) ==
    LET arr == IF imgs.tag = "array" THEN imgs.a ELSE <<imgs.s>>
    IN  IF name # "vision.analyze" THEN "Unknown tool"
        ELSE IF imgs.tag = "undefined"
                \/ (imgs.tag = "string" /\ StrLen(imgs.s) = 0)
        THEN "Missing required parameter: images"
        ELSE IF instr = <<>> \/ Len(trim(instr)) = 0
        THEN "Missing required parameter: instruction"
        ELSE IF Len(arr) = 0 THEN "At least one image is required"
        ELSE ""

\* argument validation (index.ts 440-466): the error thrown, or ""
ValidationError(name, imgs, instr) ==
    LET arr == IF imgs.tag = "array" THEN imgs.a ELSE <<imgs.s>>
    IN  IF name # "vision.analyze" THEN "Unknown tool"
        ELSE IF imgs.tag = "undefined"
                \/ (imgs.tag = "string" /\ StrLen(imgs.s) = 0)
        THEN "Missing required parameter: images"
        ELSE IF instr = <<>> \/ Len(trim(instr)) = 0
        THEN "Missing required parameter: instruction"
        ELSE IF Len(arr) = 0 THEN "At least one image is required"
        ELSE IF Len(arr) > MAX_IMAGES THEN "Too many images"
        ELSE ""

Validate ==
    /\ pc = "start"
    /\ LET err == ValidationError(toolName, images, instruction)
       IN  IF err # ""
           THEN /\ pc' = "error"
                /\ outcome' = Thrown(err)
                /\ UNCHANGED imageArray
           ELSE /\ pc' = "loop"
                /\ imageArray' = IF images.tag = "array" THEN images.a
                                 ELSE <<images.s>>
                /\ UNCHANGED outcome
    /\ UNCHANGED <<config, context, filepath, tried, idx, parts, handled, io,
                   timers, sent, response>>

\* a variant of the loop that drops an image that failed to convert
Resume_skipFailed(res) ==
    /\ parts' = IF res.ok THEN Append(parts, res.part) ELSE parts
    /\ idx' = idx + 1
    /\ pc' = "loop"
    /\ UNCHANGED outcome

\* the result of toPart reaches the loop (index.ts 470-472)
Resume(res) ==
    IF res.ok
    THEN /\ parts' = Append(parts, res.part)
         /\ idx' = idx + 1
         /\ pc' = "loop"
         /\ UNCHANGED outcome
    ELSE /\ pc' = "error"
         /\ outcome' = Thrown(res.err)
         /\ UNCHANGED <<parts, idx>>

InLoop == pc = "loop" /\ idx <= Len(imageArray)

\* toPart on a data URI (index.ts 83-106)
ToPartDataURI ==
    /\ InLoop
    /\ isDataURI(imageArray[idx])
    /\ handled' = Append(handled, "DataUri")
    /\ Resume(toPartData(imageArray[idx]))
    /\ UNCHANGED <<config, context, filepath, tried, imageArray, io, timers,
                   sent, response>>

\* toPart on a remote URL, up to the GET (index.ts 109-116)
ToPartRequest ==
    /\ InLoop
    /\ ~isDataURI(imageArray[idx])
    /\ isURL(imageArray[idx])
    /\ handled' = Append(handled, "RemoteUrl")
    /\ timers' = timers \cup {Timer(idx)}
    /\ io' = Append(io, IO("GET", imageArray[idx].pre))
    /\ pc' = "fetching"
    /\ UNCHANGED <<config, context, filepath, tried, imageArray, idx, parts,
                   sent, response, outcome>>

\* a GET whose timer is cleared only when the image was accepted
ToPartResponse_leakOnError ==
    /\ pc = "fetching"
    /\ timers' =
          IF toPartFetched(webGet(imageArray[idx]), MAX_LONG_EDGE).ok
          THEN timers \ {Timer(idx)}
          ELSE timers
    /\ Resume(toPartFetched(webGet(imageArray[idx]), MAX_LONG_EDGE))
    /\ UNCHANGED <<config, context, filepath, tried, imageArray, handled, io,
                   sent, response>>

\* the GET completes (index.ts 118-139)
ToPartResponse ==
    /\ pc = "fetching"
    /\ timers' = timers \ {Timer(idx)}
    /\ Resume(toPartFetched(webGet(imageArray[idx]), MAX_LONG_EDGE))
    /\ UNCHANGED <<config, context, filepath, tried, imageArray, handled, io,
                   sent, response>>

\* a timer whose callback leaves the GET running
ToPartTimeout_noAbort ==
    /\ pc = "fetching"
    /\ Timer(idx) \in timers
    /\ timers' = timers \ {Timer(idx)}
    /\ UNCHANGED <<config, context, filepath, tried, imageArray, handled, io,
                   sent, response, pc, idx, parts, outcome>>

\* the timer fires first: the GET is aborted and rejects (index.ts 111, 138)
ToPartTimeout ==
    /\ pc = "fetching"
    /\ Timer(idx) \in timers
    /\ timers' = timers \ {Timer(idx)}
    /\ Resume(Fail("AbortError"))
    /\ UNCHANGED <<config, context, filepath, tried, imageArray, handled, io,
                   sent, response>>

\* toPart on a file URL or a path, up to readFile (index.ts 143-153)
ToPartFile ==
    /\ InLoop
    /\ ~isDataURI(imageArray[idx])
    /\ ~isURL(imageArray[idx])
    /\ LET p == toPartPath(imageArray[idx], platform)
       IN  /\ handled' = Append(handled,
                  IF isFileURL(imageArray[idx]) THEN "FileUri"
                  ELSE IF p.step = "read" THEN "AbsolutePath"
                  ELSE "Unsupported")
           /\ filepath' = p.path
           /\ IF p.step = "read"
              THEN /\ io' = Append(io, IO("readFile", p.path))
                   /\ pc' = "reading"
                   /\ UNCHANGED <<parts, idx, outcome>>
              ELSE /\ Resume(Fail(p.err))
                   /\ UNCHANGED io
    /\ UNCHANGED <<config, context, tried, imageArray, timers, sent,
                   response>>

\* readFile completes (index.ts 149-150)
ToPartRead ==
    /\ pc = "reading"
    /\ LET file == readFile(filepath, platform)
       IN  Resume(IF file.ok
                  THEN processImageBuffer(file.buffer, MAX_LONG_EDGE)
                  ELSE Fail("ENOENT"))
    /\ UNCHANGED <<config, context, filepath, tried, imageArray, handled, io,
                   timers, sent, response>>

\* a variant that puts the instruction before the image parts
PushInstruction_first ==
    /\ pc = "loop"
    /\ idx > Len(imageArray)
    /\ parts' = <<TextPart(instruction)>> \o parts
    /\ pc' = "callGemini"
    /\ UNCHANGED <<config, context, filepath, tried, imageArray, idx,
                   handled, io, timers, sent, response, outcome>>

\* the instruction becomes the final text part (index.ts 475)
PushInstruction ==
    /\ pc = "loop"
    /\ idx > Len(imageArray)
    /\ parts' = Append(parts, TextPart(instruction))
    /\ pc' = "callGemini"
    /\ UNCHANGED <<config, context, filepath, tried, imageArray, idx,
                   handled, io, timers, sent, response, outcome>>

\* ------------------------------------------------------------------------
\* JSON values and provider response bodies
\* ------------------------------------------------------------------------
JNull == [t |-> "null"]

JUndefined == [t |-> "undefined"]

JNum(n) == [t |-> "number", n |-> n]

JStr(cs) == [t |-> "string", s |-> cs]

JArr(a) == [t |-> "array", a |-> a]

NoProperties == [k \in {} |-> [t |-> "null"]]

\* o: a function from property names to values
JObj(o) == [t |-> "object", o |-> o]

Nullish(v) == v.t \in {"null", "undefined"}

Evaluated(v) == [ok |-> TRUE, v |-> v]

TypeError == [ok |-> FALSE, v |-> JUndefined]

\* v.key: a TypeError on null and undefined, undefined when absent
Get(v, key) ==
    IF Nullish(v) THEN TypeError
    ELSE IF v.t = "object" /\ key \in DOMAIN v.o THEN Evaluated(v.o[key])
    ELSE Evaluated(JUndefined)

\* v?.key
OptGet(v, key) == IF Nullish(v) THEN Evaluated(JUndefined) ELSE Get(v, key)

\* v?.[0]
OptFirst(v) ==
    IF v.t = "array" /\ Len(v.a) > 0 THEN v.a[1]
    ELSE IF v.t = "string" /\ Len(v.s) > 0 THEN JStr(<<v.s[1]>>)
    ELSE JUndefined

Digits == <<"0","1","2","3","4","5","6","7","8","9">>

\* how Array.prototype.join writes an element
JoinText(v) ==
    CASE Nullish(v)     -> <<>>
      [] v.t = "string" -> v.s
      [] v.t = "number" /\ v.n \in 0..9 -> <<Digits[v.n + 1]>>
      [] OTHER          -> <<"[","o","b","j","e","c","t"," ","O","b","j","e","c","t","]">>

RECURSIVE Join(_)
Join(vs) == IF vs = <<>> THEN <<>> ELSE JoinText(Head(vs)) \o Join(Tail(vs))

\* JavaScript truthiness
Truthy(v) ==
    CASE Nullish(v)     -> FALSE
      [] v.t = "string" -> v.s # <<>>
      [] v.t = "number" -> v.n # 0
      [] OTHER          -> TRUE

B_null ==
    <<"n","u","l","l">>

B_num ==
    <<"5">>

B_obj ==
    <<"{","}">>

B_err ==
    <<"{","\"","e","r","r","o","r","\"",":","{","\"","m","e","s","s","a",
      "g","e","\"",":","\"","q","u","o","t","a","\"","}","}">>

B_errcode ==
    <<"{","\"","e","r","r","o","r","\"",":","{","\"","c","o","d","e","\"",
      ":","4","2","9","}","}">>

B_errstr ==
    <<"{","\"","e","r","r","o","r","\"",":","\"","b","a","d","\"","}">>

B_none ==
    <<"{","\"","c","a","n","d","i","d","a","t","e","s","\"",":","[","]",
      "}">>

B_text ==
    <<"{","\"","c","a","n","d","i","d","a","t","e","s","\"",":","[","{",
      "\"","c","o","n","t","e","n","t","\"",":","{","\"","p","a","r","t",
      "s","\"",":","[","{","\"","t","e","x","t","\"",":","\"","a","\"",
      "}",",","{","\"","t","e","x","t","\"",":","\"","b","\"","}","]","}",
      "}","]","}">>

B_two ==
    <<"{","\"","c","a","n","d","i","d","a","t","e","s","\"",":","[","{",
      "\"","c","o","n","t","e","n","t","\"",":","{","\"","p","a","r","t",
      "s","\"",":","[","{","\"","t","e","x","t","\"",":","\"","a","\"",
      "}","]","}","}",",","{","\"","c","o","n","t","e","n","t","\"",":",
      "{","\"","p","a","r","t","s","\"",":","[","{","\"","t","e","x","t",
      "\"",":","\"","z","\"","}","]","}","}","]","}">>

B_blocked ==
    <<"{","\"","c","a","n","d","i","d","a","t","e","s","\"",":","[","{",
      "\"","f","i","n","i","s","h","R","e","a","s","o","n","\"",":","\"",
      "S","A","F","E","T","Y","\"","}","]","}">>

B_notext ==
    <<"{","\"","c","a","n","d","i","d","a","t","e","s","\"",":","[","{",
      "\"","c","o","n","t","e","n","t","\"",":","{","\"","p","a","r","t",
      "s","\"",":","[","{","\"","t","e","x","t","\"",":","\"","a","\"",
      "}",",","{","\"","x","\"",":","1","}","]","}","}","]","}">>

B_partnull ==
    <<"{","\"","c","a","n","d","i","d","a","t","e","s","\"",":","[","{",
      "\"","c","o","n","t","e","n","t","\"",":","{","\"","p","a","r","t",
      "s","\"",":","[","n","u","l","l","]","}","}","]","}">>

B_partsstr ==
    <<"{","\"","c","a","n","d","i","d","a","t","e","s","\"",":","[","{",
      "\"","c","o","n","t","e","n","t","\"",":","{","\"","p","a","r","t",
      "s","\"",":","\"","a","b","\"","}","}","]","}">>

B_numtext ==
    <<"{","\"","c","a","n","d","i","d","a","t","e","s","\"",":","[","{",
      "\"","c","o","n","t","e","n","t","\"",":","{","\"","p","a","r","t",
      "s","\"",":","[","{","\"","t","e","x","t","\"",":","5","}","]","}",
      "}","]","}">>

B_candnull ==
    <<"{","\"","c","a","n","d","i","d","a","t","e","s","\"",":","n","u",
      "l","l","}">>

B_candstr ==
    <<"{","\"","c","a","n","d","i","d","a","t","e","s","\"",":","\"","a",
      "b","\"","}">>

B_html ==
    <<"<","h","t","m","l",">","B","a","d"," ","G","a","t","e","w","a","y",
      "<","/","h","t","m","l",">">>

\* a body that is not JSON and longer than the part an error message keeps
B_long == [i \in 1..(ERR_BODY_CHARS + 5) |-> IF i = 1 THEN "<" ELSE "x"]

B_empty == <<>>

JsonBodies ==
    {B_null, B_num, B_obj, B_err, B_errcode,
     B_errstr, B_none, B_text, B_two, B_blocked,
     B_notext, B_partnull, B_partsstr, B_numtext, B_candnull,
     B_candstr}

TextBodies == {B_html, B_long, B_empty}

Parsed(v) == [ok |-> TRUE, v |-> v]

SyntaxError == [ok |-> FALSE, v |-> JUndefined]

\* JSON.parse on the bodies of the model
JSONParse(raw) ==
    CASE raw = B_null ->
          Parsed(JNull)
      [] raw = B_num ->
          Parsed(JNum(5))
      [] raw = B_obj ->
          Parsed(JObj(NoProperties))
      [] raw = B_err ->
          Parsed(JObj([error |-> JObj([message |-> JStr(<<"q","u","o","t","a">>)])]))
      [] raw = B_errcode ->
          Parsed(JObj([error |-> JObj([code |-> JNum(429)])]))
      [] raw = B_errstr ->
          Parsed(JObj([error |-> JStr(<<"b","a","d">>)]))
      [] raw = B_none ->
          Parsed(JObj([candidates |-> JArr(<<>>)]))
      [] raw = B_text ->
          Parsed(JObj([candidates |-> JArr(<<JObj([content |-> JObj([parts |-> JArr(<<JObj([text |-> JStr(<<"a">>)]), JObj([text |-> JStr(<<"b">>)])>>)])])>>)]))
      [] raw = B_two ->
          Parsed(JObj([candidates |-> JArr(<<JObj([content |-> JObj([parts |-> JArr(<<JObj([text |-> JStr(<<"a">>)])>>)])]), JObj([content |-> JObj([parts |-> JArr(<<JObj([text |-> JStr(<<"z">>)])>>)])])>>)]))
      [] raw = B_blocked ->
          Parsed(JObj([candidates |-> JArr(<<JObj([finishReason |-> JStr(<<"S","A","F","E","T","Y">>)])>>)]))
      [] raw = B_notext ->
          Parsed(JObj([candidates |-> JArr(<<JObj([content |-> JObj([parts |-> JArr(<<JObj([text |-> JStr(<<"a">>)]), JObj([x |-> JNum(1)])>>)])])>>)]))
      [] raw = B_partnull ->
          Parsed(JObj([candidates |-> JArr(<<JObj([content |-> JObj([parts |-> JArr(<<JNull>>)])])>>)]))
      [] raw = B_partsstr ->
          Parsed(JObj([candidates |-> JArr(<<JObj([content |-> JObj([parts |-> JStr(<<"a","b">>)])])>>)]))
      [] raw = B_numtext ->
          Parsed(JObj([candidates |-> JArr(<<JObj([content |-> JObj([parts |-> JArr(<<JObj([text |-> JNum(5)])>>)])])>>)]))
      [] raw = B_candnull ->
          Parsed(JObj([candidates |-> JNull]))
      [] raw = B_candstr ->
          Parsed(JObj([candidates |-> JStr(<<"a","b">>)]))
      [] OTHER -> SyntaxError

\* JSON.stringify of a parsed body: the bodies of the model are compact
JSONStringify(v) == CHOOSE raw \in JsonBodies : JSONParse(raw).v = v

\* String.prototype.substring(0, n)
substring(cs, n) == SubSeq(cs, 1, IF Len(cs) < n THEN Len(cs) ELSE n)

\* ------------------------------------------------------------------------
\* The response body of undici: json() and text() consume it
\* ------------------------------------------------------------------------
Body(raw) == [raw |-> raw, used |-> FALSE]

\* body.json(): reads the whole body, then parses it
bodyJson(body) ==
    IF body.used THEN [ok |-> FALSE, v |-> JUndefined, body |-> body]
    ELSE LET parsed == JSONParse(body.raw)
         IN  [ok |-> parsed.ok, v |-> parsed.v,
              body |-> [body EXCEPT !.used = TRUE]]

\* body.text(): rejects once the body has been read
bodyText(body) ==
    IF body.used THEN [ok |-> FALSE, text |-> <<>>]
    ELSE [ok |-> TRUE, text |-> body.raw]

\* ------------------------------------------------------------------------
\* Reading the provider response (index.ts 239-260, 302-323)
\* ------------------------------------------------------------------------
ApiError(err, statusCode, detail) ==
    [status |-> "error", text |-> <<>>, err |-> err, code |-> statusCode,
     detail |-> detail]

\* json.error?.message || JSON.stringify(json).substring(0, 200)
errorDetail(json) ==
    LET error == Get(json, "error")
        message == IF error.ok THEN OptGet(error.v, "message") ELSE TypeError
    IN  IF ~message.ok THEN TypeError
        ELSE IF Truthy(message.v) THEN Evaluated(JStr(JoinText(message.v)))
        ELSE Evaluated(JStr(substring(JSONStringify(json), ERR_BODY_CHARS)))

\* json.candidates?.[0]?.content?.parts?.map((p) => p.text).join("") ?? ""
extractText(json) ==
    LET candidates == Get(json, "candidates")
        first == IF candidates.ok /\ ~Nullish(candidates.v)
                 THEN OptFirst(candidates.v) ELSE JUndefined
        content == OptGet(first, "content")
        ps == OptGet(content.v, "parts")
    IN  IF ~candidates.ok THEN TypeError
        ELSE IF Nullish(ps.v) THEN Evaluated(JStr(<<>>))
        ELSE IF ps.v.t # "array" THEN TypeError
        ELSE IF \E i \in 1..Len(ps.v.a) : Nullish(ps.v.a[i]) THEN TypeError
        ELSE Evaluated(JStr(Join([i \in 1..Len(ps.v.a) |->
                                     Get(ps.v.a[i], "text").v])))

\* the outcome of a dispatch whose POST was answered; rejected: what a
\* rejected body.text() throws
readResponse(backend, statusCode, raw, rejected) ==
    LET json == bodyJson(Body(raw))
        text == bodyText(json.body)
        detail == errorDetail(json.v)
        answer == extractText(json.v)
    IN  IF ~json.ok
        THEN IF text.ok
             THEN ApiError(IF backend = "vertex"
                           THEN "Failed to parse Vertex response"
                           ELSE "Failed to parse Gemini response",
                           statusCode, substring(text.text, ERR_BODY_CHARS))
             ELSE Thrown(rejected)
        ELSE IF statusCode # 200
        THEN IF detail.ok
             THEN ApiError(IF backend = "vertex"
                           THEN "Gemini Vertex API error"
                           ELSE "Gemini API error",
                           statusCode, detail.v.s)
             ELSE Thrown("TypeError")
        ELSE IF answer.ok THEN Returned(answer.v.s)
        ELSE Thrown("TypeError")

\* normalizeModelName (index.ts 70-78)
ModelsSlash == <<"m","o","d","e","l","s","/">>

normalizeModelName(model, provider) ==
    IF provider = "vertex"
    THEN IF StartsWith(model, ModelsSlash)
         THEN SubSeq(model, Len(ModelsSlash) + 1, Len(model))
         ELSE model
    ELSE IF StartsWith(model, ModelsSlash) THEN model
    ELSE ModelsSlash \o model

\* ------------------------------------------------------------------------
\* getVertexAccessToken (index.ts 330-380)
\* ------------------------------------------------------------------------
\* the steps of getVertexAccessToken, in the order of the code
CredentialSteps == <<"explicit", "library", "adc", "user">>

\* one step gone through: the token the environment yielded in it and the
\* token the code took from it (<<>>: none)
Tried(step, yielded, token) ==
    [step |-> step, yielded |-> yielded, token |-> token]

TryLibrary == IO("import", <<"g","o","o","g","l","e","-","a","u","t","h","-","l","i","b","r","a","r","y">>)

TryADC == IO("exec", <<"g","c","l","o","u","d"," ","a","u","t","h"," ","a","p","p","l","i","c","a","t","i","o","n","-","d","e","f","a","u","l","t"," ","p","r","i","n","t","-","a","c","c","e","s","s","-","t","o","k","e","n">>)

TryUser == IO("exec", <<"g","c","l","o","u","d"," ","a","u","t","h"," ","p","r","i","n","t","-","a","c","c","e","s","s","-","t","o","k","e","n">>)

\* GOOGLE_OAUTH_ACCESS_TOKEN: unset, blank, or a token
ExplicitTokens == {<<>>, <<" ">>, <<" ", "E">>}

\* the explicit token step (index.ts 336-339): the token, or <<>>
explicitToken(explicit) ==
    IF explicit # <<>> /\ Len(trim(explicit)) > 0 THEN trim(explicit)
    ELSE <<>>

\* what the import of google-auth-library and getAccessToken() come to:
\* the module is absent, a call throws, or the token arrives as a string
\* or inside an object { token, res }
LibraryResults ==
    { [kind |-> "absent", token |-> <<>>],
      [kind |-> "throws", token |-> <<>>],
      [kind |-> "object", token |-> <<"L">>],
      [kind |-> "string", token |-> <<" ">>],
      [kind |-> "string", token |-> <<"L", " ">>] }

\* the token the library acquired
libraryYield(result) == trim(result.token)

\* the library step (index.ts 342-356): the token, or <<>>
libraryToken(result) ==
    IF result.kind = "string" /\ Len(trim(result.token)) > 0
    THEN trim(result.token)
    ELSE <<>>

\* what a gcloud command comes to: a failure, or its standard output
CommandResults == {<<"!">>, <<"\n">>, <<"T", "\n">>}

\* tryCmd (index.ts 359-364): the trimmed output, or <<>> when it throws
tryCmd(result) ==
    IF result = <<"!">> THEN <<>> ELSE trim(result)

\* ------------------------------------------------------------------------
\* callGemini (index.ts 202-327)
\* ------------------------------------------------------------------------
Request(backend, auth, body) ==
    [backend |-> backend, auth |-> auth, parts |-> body,
     model |-> normalizeModelName(MODEL, backend), invocation |-> self]

\* callGeminiAIStudio up to the POST (index.ts 211-237)
CallGeminiAIStudio ==
    /\ pc = "callGemini"
    /\ PROVIDER # "vertex"
    /\ IF API_KEY = ""
       THEN /\ pc' = "error"
            /\ outcome' = Thrown("GEMINI_API_KEY is required")
            /\ UNCHANGED <<io, timers, sent>>
       ELSE /\ timers' = timers \cup {Timer(0)}
            /\ io' = Append(io, IO("POST", <<"a","i","s">>))
            /\ sent' = Append(sent, Request("ais", <<"k","e","y">>, parts))
            /\ pc' = "awaiting"
            /\ UNCHANGED outcome
    /\ UNCHANGED <<config, context, filepath, tried, imageArray, idx, parts,
                   handled, response>>

\* callGeminiVertex once the token is there (index.ts 278-300)
VertexPost(token) ==
    /\ timers' = timers \cup {Timer(0)}
    /\ io' = Append(io, IO("POST", <<"v","e","r","t","e","x">>))
    /\ sent' = Append(sent, Request("vertex", token, parts))
    /\ pc' = "awaiting"
    /\ UNCHANGED outcome

\* a credential step is over (index.ts 336-379): its token goes to the
\* POST, or the next step starts with the operation it issues
CredentialStep(step, yielded, token, next, attempt) ==
    /\ tried' = Append(tried, Tried(step, yielded, token))
    /\ IF token # <<>>
       THEN VertexPost(token)
       ELSE /\ io' = Append(io, attempt)
            /\ pc' = next
            /\ UNCHANGED <<timers, sent, outcome>>

\* a callGeminiVertex that resolves the token before it looks at the project
CallGeminiVertex_tokenFirst ==
    /\ pc = "callGemini"
    /\ PROVIDER = "vertex"
    /\ \E explicit \in ExplicitTokens :
          CredentialStep("explicit", explicitToken(explicit),
                         explicitToken(explicit), "credLibrary", TryLibrary)
    /\ UNCHANGED <<config, context, filepath, imageArray, idx, parts,
                   handled, response>>

\* callGeminiVertex up to the first credential step that has to wait
\* (index.ts 267-277, 330-344)
CallGeminiVertex ==
    /\ pc = "callGemini"
    /\ PROVIDER = "vertex"
    /\ IF project = ""
       THEN /\ pc' = "error"
            /\ outcome' = Thrown("GOOGLE_CLOUD_PROJECT is required")
            /\ UNCHANGED <<io, timers, sent, tried>>
       ELSE \E explicit \in ExplicitTokens :
              CredentialStep("explicit", explicitToken(explicit),
                             explicitToken(explicit), "credLibrary",
                             TryLibrary)
    /\ UNCHANGED <<config, context, filepath, imageArray, idx, parts,
                   handled, response>>

\* the credentials library answered (index.ts 344-356)
CredLibrary ==
    /\ pc = "credLibrary"
    /\ \E result \in LibraryResults :
          CredentialStep("library", libraryYield(result),
                         libraryToken(result), "credADC", TryADC)
    /\ UNCHANGED <<config, context, filepath, imageArray, idx, parts,
                   handled, response>>

\* gcloud auth application-default print-access-token ended
\* (index.ts 368-370)
CredADC ==
    /\ pc = "credADC"
    /\ \E result \in CommandResults :
          CredentialStep("adc", tryCmd(result), tryCmd(result), "credUser",
                         TryUser)
    /\ UNCHANGED <<config, context, filepath, imageArray, idx, parts,
                   handled, response>>

\* gcloud auth print-access-token ended (index.ts 373-379)
CredUser ==
    /\ pc = "credUser"
    /\ \E result \in CommandResults :
          /\ tried' = Append(tried, Tried("user", tryCmd(result),
                                           tryCmd(result)))
          /\ IF tryCmd(result) # <<>>
             THEN VertexPost(tryCmd(result))
             ELSE /\ pc' = "error"
                  /\ outcome' =
                       Thrown("Failed to get Vertex AI access token")
                  /\ UNCHANGED <<io, timers, sent>>
    /\ UNCHANGED <<config, context, filepath, imageArray, idx, parts,
                   handled, response>>

StatusCodes == {200, 429, 502}

\* what a rejected body.text() throws
Rejections == {"TypeError: unusable", "SyntaxError"}

\* the bodies the provider answers with; while two calls are handled, a
\* JSON body and a body that is not JSON
AnswerBodies ==
    IF other = NoCall THEN JsonBodies \cup TextBodies
    ELSE {B_text, B_html}

\* the POST is answered; the handler returns the text (index.ts 239-262,
\* 302-325, 480-487)
ProviderResponse ==
    /\ pc = "awaiting"
    /\ \E statusCode \in StatusCodes, raw \in AnswerBodies,
          rejected \in Rejections :
          /\ response' = [statusCode |-> statusCode, body |-> raw]
          /\ outcome' = readResponse(IF PROVIDER = "vertex" THEN "vertex"
                                     ELSE "ais", statusCode, raw, rejected)
    /\ pc' = IF outcome'.status = "result" THEN "done" ELSE "error"
    /\ timers' = timers \ {Timer(0)}
    /\ UNCHANGED <<config, context, filepath, tried, imageArray, idx, parts,
                   handled, io, sent>>

\* the timer fires first: the POST is aborted (index.ts 220, 262, 282, 325)
ProviderTimeout ==
    /\ pc = "awaiting"
    /\ Timer(0) \in timers
    /\ timers' = timers \ {Timer(0)}
    /\ pc' = "error"
    /\ outcome' = Thrown("AbortError")
    /\ UNCHANGED <<config, context, filepath, tried, imageArray, idx, parts,
                   handled, io, sent, response>>

Next ==
    \/ Validate
    \/ ToPartDataURI
    \/ ToPartRequest
    \/ ToPartResponse
    \/ ToPartTimeout
    \/ ToPartFile
    \/ ToPartRead
    \/ PushInstruction
    \/ CallGeminiAIStudio
    \/ CallGeminiVertex
    \/ CredLibrary
    \/ CredADC
    \/ CredUser
    \/ ProviderResponse
    \/ ProviderTimeout

Spec == Init /\ [][Next]_vars

\* ------------------------------------------------------------------------
\* Properties
\* ------------------------------------------------------------------------
\* the image parts of the requests that reached the provider
SentImageParts ==
    UNION {{sent[r].parts[i] : i \in 1..Len(sent[r].parts)} \cap
              {p \in {parts[i] : i \in 1..Len(parts)} : p.kind = "inlineData"} :
           r \in 1..Len(sent)}

\* the bytes decode as an image with a format and dimensions
IsRealImage(buffer) ==
    LET metadata == SourceImage(buffer.src)
    IN  /\ metadata.ok
        /\ metadata.format # ""
        /\ metadata.width > 0
        /\ metadata.height > 0

\* the bytes the environment holds for a remote or file reference
InputBuffer(img) ==
    IF isURL(img) THEN webGet(img).body
    ELSE readFile(toPartPath(img, platform).path, platform).buffer

FetchOps == SelectSeq(io, LAMBDA e : e.op \in {"GET", "readFile"})

PostOps == SelectSeq(io, LAMBDA e : e.op = "POST")

\* C1: every image part of a request sent to the provider holds bytes that
\* decode as a real image, whatever kind of reference produced it and
\* whatever MIME type the reference claimed.
C1_OnlyDecodedImagesSent ==
    \A p \in SentImageParts : IsRealImage(fromBase64(p.data))

\* C2: the mimeType of every image part of a request sent to the provider
\* is the format-to-MIME table applied to the format decoded from the
\* bytes, never the type the reference claimed.
C2_MimeFromDecodedFormat ==
    \A p \in SentImageParts :
        p.mimeType = formatToMime(SourceImage(fromBase64(p.data).src).format)

\* an image of the request failed to convert
ConversionFailed ==
    /\ pc = "error"
    /\ imageArray # <<>>
    /\ idx <= Len(imageArray)

\* C3: the provider is called at most once and only after every image was
\* converted; when converting an image fails the invocation ends in an
\* error without a provider call or a result, and no image after the
\* failing one is fetched.
C3_OneCallAfterAllImages ==
    /\ Len(sent) <= 1
    /\ Len(PostOps) <= 1
    /\ Len(PostOps) = Len(sent)
    /\ sent # <<>> =>
          /\ idx = Len(imageArray) + 1
          /\ Len(parts) = Len(imageArray) + 1
    /\ ConversionFailed =>
          /\ sent = <<>>
          /\ PostOps = <<>>
          /\ outcome.status = "error"
          /\ Len(handled) = idx
          /\ Len(parts) = idx - 1
          /\ Len(FetchOps) <= idx
    /\ Len(handled) <= Len(imageArray)
    /\ pc \in {"loop", "fetching", "reading"} => outcome = NoOutcome

C3_Witness ==
    /\ ConversionFailed
    /\ idx = 2
    /\ Len(imageArray) = 3
    /\ handled = <<"DataUri", "RemoteUrl">>
    /\ Len(FetchOps) = 1
    /\ Len(parts) = 1

\* C4: the request sent for N valid images and instruction t has N + 1
\* parts: the N image parts in the order of the references, then one text
\* part whose text is t.
C4_PartsInOrderThenText ==
    \A r \in 1..Len(sent) :
        LET ps == sent[r].parts
            N  == Len(imageArray)
        IN  /\ N >= 1
            /\ N <= MAX_IMAGES
            /\ Len(ps) = N + 1
            /\ ps[N + 1] = TextPart(instruction)
            /\ \A i \in 1..N :
                  /\ ps[i].kind = "inlineData"
                  /\ IF isDataURI(imageArray[i])
                     THEN ps[i].data.pre =
                            SubSeq(imageArray[i].pre,
                                   Len(imageArray[i].pre) + 1
                                     - Len(ps[i].data.pre),
                                   Len(imageArray[i].pre))
                          /\ ps[i].data.tail = imageArray[i].tail
                     ELSE fromBase64(ps[i].data).src =
                            InputBuffer(imageArray[i]).src

C4_Witness ==
    /\ sent # <<>>
    /\ Len(imageArray) = MAX_IMAGES
    /\ instruction = Describe

\* the input of the invocation is out of bounds
OutOfBounds ==
    \/ images.tag = "undefined"
    \/ images.tag = "string" /\ StrLen(images.s) = 0
    \/ images.tag = "array" /\ Len(images.a) = 0
    \/ images.tag = "array" /\ Len(images.a) > MAX_IMAGES
    \/ Len(trim(instruction)) = 0

\* C5: an invocation with more than 10 references, no reference, or an
\* instruction that is empty after trimming fails before any reference is
\* looked at, any fetch or file read is issued, or the provider is called.
C5_OutOfBoundsFailsFirst ==
    OutOfBounds =>
        /\ pc \in {"start", "error"}
        /\ pc = "error" => outcome.status = "error"
        /\ io = <<>>
        /\ handled = <<>>
        /\ parts = <<>>
        /\ sent = <<>>

C5_Witness ==
    /\ pc = "error"
    /\ images.tag = "array"
    /\ Len(images.a) = MAX_IMAGES + 1
    /\ Len(trim(instruction)) > 0

HasErrorMessage(v) ==
    /\ v.t = "object"
    /\ "error" \in DOMAIN v.o
    /\ v.o.error.t = "object"
    /\ "message" \in DOMAIN v.o.error.o
    /\ v.o.error.o.message.t = "string"

\* C7: after a non-200 provider response the dispatch fails with an error
\* that carries the status code and the provider's error message (body
\* parseable as JSON) or the first 200 characters of the raw body (body
\* not JSON).
C7_ErrorCarriesStatusAndBody ==
    (response.statusCode # 0 /\ response.statusCode # 200) =>
        LET parsed == JSONParse(response.body)
        IN  /\ outcome.status = "error"
            /\ outcome.code = response.statusCode
            /\ (parsed.ok /\ HasErrorMessage(parsed.v)) =>
                  outcome.detail = parsed.v.o.error.o.message.s
            /\ ~parsed.ok =>
                  outcome.detail = substring(response.body, ERR_BODY_CHARS)

\* C8: after a 200 provider response whose body parses as JSON the
\* dispatch returns a string and does not throw, whatever JSON value the
\* body is.
C8_OkJsonReturnsString ==
    (response.statusCode = 200 /\ JSONParse(response.body).ok) =>
        /\ pc = "done"
        /\ outcome.status = "result"

\* the long edge of the image a buffer decodes to
LongEdge(buffer) ==
    Max(sharpMetadata(buffer).width, sharpMetadata(buffer).height)

\* the references that went through processImageBuffer and have a part
Normalized ==
    {i \in 1..Len(imageArray) :
        /\ i <= Len(handled)
        /\ handled[i] # "DataUri"
        /\ i < Len(parts) \/ (i = Len(parts) /\ parts[i].kind = "inlineData")}

\* C9: normalization re-encodes exactly when MAX_LONG_EDGE is positive and
\* the long edge exceeds it; otherwise the emitted base64 text encodes
\* exactly the input bytes.  The decode validation and the final size check
\* have run in both cases.
C9_ResizeOnlyAboveThreshold ==
    /\ \A i \in Normalized :
          LET input  == InputBuffer(imageArray[i])
              output == fromBase64(parts[i].data)
          IN  /\ output.scaled # 0 <=>
                    (MAX_LONG_EDGE > 0 /\ LongEdge(input) > MAX_LONG_EDGE)
              /\ output.scaled = 0 =>
                    /\ output = input
                    /\ StrLen(parts[i].data) = 4 * ((input.len + 2) \div 3)
                    /\ parts[i].data = toBase64(input)
              /\ output.scaled # 0 =>
                    /\ output.scaled = MAX_LONG_EDGE
                    /\ LongEdge(output) = MAX_LONG_EDGE
              /\ IsRealImage(input)
              /\ output.len <= MAX_IMAGE_SIZE_BYTES
    /\ (ConversionFailed /\ handled[idx] # "DataUri"
          /\ outcome.err \in {"Not a valid image file",
                              "Invalid or corrupted image"})
          => ~IsRealImage(InputBuffer(imageArray[idx]))

C9_Witness ==
    \E i \in Normalized :
        /\ imageArray[i] = P_edge
        /\ MAX_LONG_EDGE = DEFAULT_MAX_LONG_EDGE
        /\ LongEdge(InputBuffer(P_edge)) = MAX_LONG_EDGE
        /\ parts[i].data = toBase64(InputBuffer(P_edge))

\* ------------------------------------------------------------------------
\* Classification of arbitrary reference strings
\* ------------------------------------------------------------------------
Pieces ==
    {<<"h","t","t","p",":">>,
     <<"H","T","T","P","S",":">>,
     <<"f","i","l","e",":">>,
     <<"d","a","t","a",":">>,
     <<"d","a","t","a",":","i","m","a","g","e","/","p","n","g">>,
     <<"i","m","a","g","e","/">>,
     <<";","b","a","s","e","6","4",",">>,
     <<"A","A","A","A">>,
     <<"/","/">>,
     <<"/">>,
     <<"C",":">>,
     <<"\\">>,
     <<"x">>,
     <<"f","t","p",":">>}

RECURSIVE Concat(_)
Concat(ps) == IF ps = <<>> THEN <<>> ELSE Head(ps) \o Concat(Tail(ps))

\* every string made of at most MaxPieces pieces, and the references above
ClassifyRefs ==
    {Str(Concat(ps)) : ps \in UNION {[1..n -> Pieces] : n \in 0..MaxPieces}}
      \cup Refs

\* one invocation with one reference, followed up to its first file or
\* network operation
InitClassify ==
    /\ platform \in {"posix", "win32"}
    /\ MAX_LONG_EDGE = DEFAULT_MAX_LONG_EDGE
    /\ PROVIDER = "ais"
    /\ API_KEY = "key"
    /\ project = ""
    /\ MODEL = DefaultModel
    /\ toolName = "vision.analyze"
    /\ images \in {[tag |-> "array", s |-> Str(<<>>), a |-> <<r>>] :
                     r \in ClassifyRefs}
    /\ instruction = Describe
    /\ pc = "start"
    /\ imageArray = <<>>
    /\ idx = 1
    /\ parts = <<>>
    /\ handled = <<>>
    /\ io = <<>>
    /\ filepath = <<>>
    /\ tried = <<>>
    /\ timers = {}
    /\ self = 1
    /\ other = NoCall
    /\ sent = <<>>
    /\ response = NoResponse
    /\ outcome = NoOutcome

NextClassify ==
    \/ Validate
    \/ ToPartDataURI
    \/ ToPartRequest
    \/ ToPartFile

SpecClassify == InitClassify /\ [][NextClassify]_vars

Kinds == {"RemoteUrl", "FileUri", "DataUri", "AbsolutePath"}

\* the pattern of a kind matches the string
Matches(kind, s) ==
    CASE kind = "RemoteUrl"    -> isURL(s)
      [] kind = "FileUri"      -> isFileURL(s)
      [] kind = "DataUri"      -> isDataURI(s)
      [] kind = "AbsolutePath" -> isAbsPath(s)

\* the orders in which the four patterns can be tested
Orders == {o \in [1..4 -> Kinds] : \A i, j \in 1..4 : o[i] = o[j] => i = j}

\* the first kind of an order that is among the matching ones
FirstMatch(o, matching) ==
    IF \E i \in 1..4 : o[i] \in matching
    THEN o[CHOOSE i \in 1..4 :
              /\ o[i] \in matching
              /\ \A j \in 1..(i - 1) : o[j] \notin matching]
    ELSE "Unsupported"

\* C10: at most one of the four patterns matches a string; toPart handles
\* the string as the kind whose pattern matches, whatever the order of the
\* tests, and a string that matches none fails as unsupported before any
\* file or network operation.
C10_ClassificationExclusive ==
    \A i \in 1..Len(handled) :
        LET img == imageArray[i]
            matching == {k \in Kinds : Matches(k, img)}
        IN  /\ Cardinality(matching) <= 1
            /\ \A o \in Orders : FirstMatch(o, matching) = handled[i]
            /\ matching = {} =>
                  /\ handled[i] = "Unsupported"
                  /\ pc = "error"
                  /\ outcome.err = "Unsupported image format"
                  /\ io = <<>>
            /\ img \in {X_ftp, X_rel} => matching = {}

C10_Witness ==
    /\ handled = <<"Unsupported">>
    /\ imageArray = <<X_ftp>>
    /\ pc = "error"
    /\ io = <<>>

\* ------------------------------------------------------------------------
\* Bearer-token resolution
\* ------------------------------------------------------------------------
\* a credential step is still waiting for its answer
Resolving == pc \in {"credLibrary", "credADC", "credUser"}

\* C11: the credential steps run in the order explicit token, credentials
\* library, gcloud application-default, gcloud user; the first step in
\* which a non-empty token is yielded ends the resolution with that token
\* and no later step is attempted; the resolution fails only when the last
\* step yields nothing.
C11_FirstTokenWins ==
    /\ Len(tried) <= Len(CredentialSteps)
    /\ \A i \in 1..Len(tried) :
          /\ tried[i].step = CredentialSteps[i]
          /\ tried[i].yielded # <<>> =>
                /\ i = Len(tried)
                /\ ~Resolving
                /\ Len(sent) = 1
                /\ sent[1].auth = tried[i].yielded
    /\ outcome.err = "Failed to get Vertex AI access token" =>
          /\ Len(tried) = Len(CredentialSteps)
          /\ \A i \in 1..Len(tried) : tried[i].yielded = <<>>

\* ------------------------------------------------------------------------
\* Data URIs that declare another type than an image
\* ------------------------------------------------------------------------
\* C12: a data URI whose declared MIME type does not begin with image/ is
\* handled by the data URI branch and rejected there because of its type,
\* not as an unsupported reference.
C12_NonImageDataURIRejectedByType ==
    \A i \in 1..Len(handled) :
        LET match == DataURIMatch(imageArray[i])
        IN  (match.matched /\ ~StartsWith(match.mime, ImageSlash)) =>
                /\ handled[i] = "DataUri"
                /\ pc = "error"
                /\ outcome.err = "Data URI must be an image"

\* ------------------------------------------------------------------------
\* Termination
\* ------------------------------------------------------------------------
\* The handler runs its own steps whenever it can, and an armed timer
\* fires unless it is cleared first. Nothing makes the network, the file
\* system, the credentials library or gcloud answer.
InitLive ==
    /\ Init
    /\ images \in ProbeArgs
    /\ instruction = Describe
    /\ platform = "posix"
    /\ MAX_LONG_EDGE = DEFAULT_MAX_LONG_EDGE

Fairness ==
    /\ WF_vars(Validate)
    /\ WF_vars(ToPartDataURI)
    /\ WF_vars(ToPartRequest)
    /\ WF_vars(ToPartTimeout)
    /\ WF_vars(ToPartFile)
    /\ WF_vars(PushInstruction)
    /\ WF_vars(CallGeminiAIStudio)
    /\ WF_vars(CallGeminiVertex)
    /\ WF_vars(ProviderTimeout)

SpecLive == InitLive /\ [][Next]_vars /\ Fairness

Terminal == pc \in {"done", "error"}

\* waiting for an operation that no timer bounds: readFile (index.ts 151),
\* the credentials library and gcloud (index.ts 344-375)
Unbounded == pc = "reading" \/ Resolving

\* C13 as stated: whatever the operation an invocation waits for, a timeout
\* ends the wait, so every invocation reaches a result or an error.
C13_EveryInvocationTerminates == <>Terminal

\* C13: a remote GET and the provider POST are each bounded by their timer:
\* if no answer comes the timer fires, the operation is aborted and the
\* invocation ends with a failure. An invocation that does not end is
\* waiting for a file read or a credential step, which no timer bounds.
C13_NetworkWaitsBounded ==
    /\ (pc = "fetching") ~> (pc # "fetching")
    /\ (pc = "awaiting") ~> Terminal
    /\ <>[](Terminal \/ Unbounded)

C13_Witness ==
    /\ pc = "error"
    /\ outcome.err = "AbortError"
    /\ timers = {}
    /\ io # <<>>
    /\ io[Len(io)].op = "GET"
    /\ sent = <<>>

\* ------------------------------------------------------------------------
\* Timers
\* ------------------------------------------------------------------------
\* the timer of the network operation the invocation is waiting for
InFlight ==
    CASE pc = "fetching" -> {Timer(idx)}
      [] pc = "awaiting" -> {Timer(0)}
      [] OTHER           -> {}

\* C14: a GET and the POST each arm one timer of their own, and whichever
\* way the operation ends its timer is gone: the armed timers are exactly
\* the timer of the operation in flight, so there is never more than one
\* and none is left to fire during a later operation.
C14_OnlyInFlightTimerArmed ==
    /\ timers = InFlight
    /\ Cardinality(timers) <= 1

C14_Witness ==
    /\ pc = "fetching"
    /\ idx = 2
    /\ isURL(imageArray[1])
    /\ timers = {Timer(2)}

\* ------------------------------------------------------------------------
\* Single attempt and the outcomes of a dispatch
\* ------------------------------------------------------------------------
GetOps == SelectSeq(io, LAMBDA e : e.op = "GET")

RemoteHandled == {i \in 1..Len(handled) : handled[i] = "RemoteUrl"}

\* the terminal outcome of a dispatch that an outcome of the handler is
DispatchOutcome(o) ==
    CASE o.status = "result" -> "Success"
      [] o.status = "error" /\ o.err = "AbortError" -> "TimedOut"
      [] o.status = "error"
           /\ o.err \in {"Gemini API error", "Gemini Vertex API error"}
           -> "HttpError"
      [] o.status = "error"
           /\ o.err \in {"Failed to parse Gemini response",
                         "Failed to parse Vertex response"}
           -> "ParseFallback"
      [] OTHER -> "none"

\* C15: a dispatch issues at most one POST and a remote reference at most
\* one GET, and a dispatch that issued its POST and is over ended as
\* Success, TimedOut, HttpError or ParseFallback.
C15_SingleAttemptFourOutcomes ==
    /\ Len(PostOps) <= 1
    /\ Len(GetOps) = Cardinality(RemoteHandled)
    /\ (PostOps # <<>> /\ Terminal) =>
          DispatchOutcome(outcome) \in
              {"Success", "TimedOut", "HttpError", "ParseFallback"}

\* ------------------------------------------------------------------------
\* Backend selection and required configuration
\* ------------------------------------------------------------------------
\* the backend callGemini selects (index.ts 202-208)
Backend == IF PROVIDER = "vertex" THEN "vertex" ELSE "ais"

\* the setting the selected backend cannot do without is missing
Unconfigured ==
    IF Backend = "vertex" THEN project = "" ELSE API_KEY = ""

\* callGemini has been entered and has taken its first step
Dispatched ==
    /\ parts # <<>>
    /\ parts[Len(parts)].kind = "text"
    /\ pc # "callGemini"

CredentialOps == SelectSeq(io, LAMBDA e : e.op \in {"import", "exec"})

\* C16: requests go to the Vertex backend exactly when PROVIDER is
\* "vertex" and to the AI Studio backend otherwise; without the API key
\* (AI Studio) or the project (Vertex) the dispatch fails with the
\* configuration error, no POST is issued and, for Vertex, no credential
\* step is taken.
C16_BackendAndConfiguration ==
    /\ \A r \in 1..Len(sent) : sent[r].backend = Backend
    /\ \A i \in 1..Len(PostOps) :
          PostOps[i].target =
              IF PROVIDER = "vertex" THEN <<"v","e","r","t","e","x">>
              ELSE <<"a","i","s">>
    /\ Backend = "ais" => tried = <<>> /\ CredentialOps = <<>>
    /\ Unconfigured =>
          /\ PostOps = <<>>
          /\ sent = <<>>
          /\ tried = <<>>
          /\ CredentialOps = <<>>
          /\ Dispatched =>
                /\ pc = "error"
                /\ outcome.err = IF Backend = "vertex"
                                 THEN "GOOGLE_CLOUD_PROJECT is required"
                                 ELSE "GEMINI_API_KEY is required"

C16_Witness ==
    /\ PROVIDER = "vertex"
    /\ project = ""
    /\ Dispatched
    /\ outcome.err = "GOOGLE_CLOUD_PROJECT is required"
    /\ tried = <<>>
    /\ io = <<>>

\* ------------------------------------------------------------------------
\* Two invocations handled concurrently
\* ------------------------------------------------------------------------
\* Everything the handler declares (index.ts 439-488) and everything toPart
\* and callGemini declare belongs to one call of the handler. While a call
\* waits at an await the other call may run: Switch suspends the running
\* call and resumes the other one. The environment settings, the timers of
\* the event loop and the requests that reached the provider are common.
Locals ==
    [self |-> self, toolName |-> toolName, images |-> images,
     instruction |-> instruction, pc |-> pc, imageArray |-> imageArray,
     idx |-> idx, parts |-> parts, handled |-> handled, io |-> io,
     filepath |-> filepath, tried |-> tried, response |-> response,
     outcome |-> outcome]

\* a handler whose parts array is a module-level variable
Switch_sharedParts ==
    /\ other # NoCall
    /\ other' = Locals
    /\ self' = other.self
    /\ toolName' = other.toolName
    /\ images' = other.images
    /\ instruction' = other.instruction
    /\ pc' = other.pc
    /\ imageArray' = other.imageArray
    /\ idx' = other.idx
    /\ handled' = other.handled
    /\ io' = other.io
    /\ filepath' = other.filepath
    /\ tried' = other.tried
    /\ response' = other.response
    /\ outcome' = other.outcome
    /\ UNCHANGED <<platform, MAX_LONG_EDGE, PROVIDER, API_KEY, project, MODEL,
                   timers, sent, parts>>

Switch ==
    /\ other # NoCall
    /\ other' = Locals
    /\ self' = other.self
    /\ toolName' = other.toolName
    /\ images' = other.images
    /\ instruction' = other.instruction
    /\ pc' = other.pc
    /\ imageArray' = other.imageArray
    /\ idx' = other.idx
    /\ parts' = other.parts
    /\ handled' = other.handled
    /\ io' = other.io
    /\ filepath' = other.filepath
    /\ tried' = other.tried
    /\ response' = other.response
    /\ outcome' = other.outcome
    /\ UNCHANGED <<platform, MAX_LONG_EDGE, PROVIDER, API_KEY, project, MODEL,
                   timers, sent>>

TwoArgs ==
    {[tag |-> "array", s |-> Str(<<>>), a |-> arr] :
        arr \in {<<D_png>>, <<U_ok, P_jpeg>>}}

InitTwo ==
    /\ platform = "posix"
    /\ MAX_LONG_EDGE = DEFAULT_MAX_LONG_EDGE
    /\ PROVIDER \in {"ais", "vertex"}
    /\ API_KEY = "key"
    /\ project = "proj"
    /\ MODEL = DefaultModel
    /\ toolName = "vision.analyze"
    /\ images \in TwoArgs
    /\ instruction = Describe
    /\ pc = "start"
    /\ imageArray = <<>>
    /\ idx = 1
    /\ parts = <<>>
    /\ handled = <<>>
    /\ io = <<>>
    /\ filepath = <<>>
    /\ tried = <<>>
    /\ timers = {}
    /\ self = 1
    /\ \E args \in {a \in TwoArgs : a.a = <<U_ok, P_jpeg>>} :
          other = [self |-> 2, toolName |-> "vision.analyze",
                   images |-> args, instruction |-> <<" ", "h", "i", " ">>,
                   pc |-> "start", imageArray |-> <<>>, idx |-> 1,
                   parts |-> <<>>, handled |-> <<>>, io |-> <<>>,
                   filepath |-> <<>>, tried |-> <<>>,
                   response |-> NoResponse, outcome |-> NoOutcome]
    /\ sent = <<>>
    /\ response = NoResponse
    /\ outcome = NoOutcome

NextTwo ==
    \/ Next
    \/ Switch

SpecTwo == InitTwo /\ [][NextTwo]_vars

\* toPart on a reference whose GET or readFile is answered
SoloPart(img) ==
    IF isDataURI(img) THEN toPartData(img)
    ELSE IF isURL(img) THEN toPartFetched(webGet(img), MAX_LONG_EDGE)
    ELSE LET p == toPartPath(img, platform)
             file == readFile(p.path, platform)
         IN  IF p.step # "read" THEN Fail(p.err)
             ELSE IF file.ok
             THEN processImageBuffer(file.buffer, MAX_LONG_EDGE)
             ELSE Fail("ENOENT")

\* the errors toPart can end with on a reference
SoloErrors(img) ==
    (IF SoloPart(img).ok THEN {} ELSE {SoloPart(img).err})
      \cup (IF isURL(img) /\ ~isDataURI(img) THEN {"AbortError"} ELSE {})

\* the requests of one call that reached the provider
RequestsOf(id) == SelectSeq(sent, LAMBDA r : r.invocation = id)

\* the outcomes a dispatch can end with when it runs alone
SoloDispatch(call) ==
    IF call.response # NoResponse
    THEN {readResponse(Backend, call.response.statusCode,
                       call.response.body, rejected) :
             rejected \in Rejections}
    ELSE IF RequestsOf(call.self) # <<>> THEN {Thrown("AbortError")}
    ELSE IF Unconfigured
    THEN {Thrown("GOOGLE_CLOUD_PROJECT is required"),
          Thrown("GEMINI_API_KEY is required")}
    ELSE {Thrown("Failed to get Vertex AI access token")}

\* the state of a call is a state of that call running alone on its own
\* arguments
Alone(call) ==
    LET err == ValidationError(call.toolName, call.images, call.instruction)
        arr == call.imageArray
        n == Len(arr)
        requests == RequestsOf(call.self)
    IN  /\ Len(requests) <= 1
        /\ (call.pc # "start" /\ err = "") =>
              arr = IF call.images.tag = "array" THEN call.images.a
                    ELSE <<call.images.s>>
        /\ Len(call.parts) \in {call.idx - 1, call.idx}
        /\ \A i \in 1..Len(call.parts) :
              IF i <= n
              THEN /\ SoloPart(arr[i]).ok
                   /\ call.parts[i] = SoloPart(arr[i]).part
              ELSE call.parts[i] = TextPart(call.instruction)
        /\ \A r \in 1..Len(requests) :
              /\ requests[r].parts = call.parts
              /\ Len(call.parts) = n + 1
        /\ call.pc = "done" =>
              /\ requests # <<>>
              /\ call.outcome \in SoloDispatch(call)
        /\ call.pc = "error" =>
              IF err # "" THEN call.outcome = Thrown(err)
              ELSE IF call.idx <= n
              THEN call.outcome.err \in SoloErrors(arr[call.idx])
              ELSE call.outcome \in SoloDispatch(call)

\* C17: under every interleaving of two handler calls the request of each
\* call holds the parts of its own images in order followed by its own
\* instruction, and the outcome of each call is an outcome of that call
\* running alone on the same answers of its environment.
C17_InvocationsDoNotInterfere ==
    /\ other # NoCall
    /\ Alone(Locals)
    /\ Alone(other)

C17_Witness ==
    /\ Len(sent) = 2
    /\ sent[1].invocation = 2
    /\ sent[2].invocation = 1
    /\ sent[1].parts # sent[2].parts
    /\ pc = "done"
    /\ other.pc = "done"

\* ------------------------------------------------------------------------
\* Model names
\* ------------------------------------------------------------------------
ModelPieces ==
    {<<"m","o","d","e","l","s","/">>,
     <<"m","o","d","e","l","s">>,
     <<"/">>,
     <<"M","o","d","e","l","s","/">>,
     <<"g","e","m","i","n","i","-","p","r","o">>}

\* <<"g","e","m","i","n","i","-","p","r","o">>_MODEL: unset or empty (<<>>), or a string of at most MaxPieces
\* pieces
ModelSettings ==
    {Concat(ps) : ps \in UNION {[1..n -> ModelPieces] : n \in 0..MaxPieces}}

\* one invocation with one data URI, followed until the model name has
\* gone into a request or a credential step has to wait
InitModel ==
    /\ platform = "posix"
    /\ MAX_LONG_EDGE = DEFAULT_MAX_LONG_EDGE
    /\ PROVIDER \in {"ais", "vertex"}
    /\ API_KEY = "key"
    /\ project = "proj"
    /\ \E setting \in ModelSettings :
          MODEL = IF setting = <<>> THEN DefaultModel ELSE setting
    /\ toolName = "vision.analyze"
    /\ images = [tag |-> "array", s |-> Str(<<>>), a |-> <<D_png>>]
    /\ instruction = Describe
    /\ pc = "start"
    /\ imageArray = <<>>
    /\ idx = 1
    /\ parts = <<>>
    /\ handled = <<>>
    /\ io = <<>>
    /\ filepath = <<>>
    /\ tried = <<>>
    /\ timers = {}
    /\ self = 1
    /\ other = NoCall
    /\ sent = <<>>
    /\ response = NoResponse
    /\ outcome = NoOutcome

NextModel ==
    \/ Validate
    \/ ToPartDataURI
    \/ PushInstruction
    \/ CallGeminiAIStudio
    \/ CallGeminiVertex

SpecModel == InitModel /\ [][NextModel]_vars

\* C18: the model name in a request to AI Studio begins with models/, and is
\* the configured name when that already does; the model name in a request
\* to Vertex does not begin with models/; normalizing the name in a request
\* once more leaves it as it is.
C18_ModelNameNormalized ==
    \A r \in 1..Len(sent) :
        LET name == sent[r].model
        IN  /\ name = normalizeModelName(MODEL, sent[r].backend)
            /\ sent[r].backend = "ais" =>
                  /\ StartsWith(name, ModelsSlash)
                  /\ StartsWith(MODEL, ModelsSlash) => name = MODEL
            /\ sent[r].backend = "vertex" => ~StartsWith(name, ModelsSlash)
            /\ normalizeModelName(name, sent[r].backend) = name

====
